---- MODULE Spec2Model ----
(***************************************************************************)
(* Model of the two chess-engine variants of Assignment-1-Chess:           *)
(*   GoogleSearch-Version/main.py  (definitions suffixed _GS)              *)
(*   ChatGPT-4o-Version/main.py    (definitions suffixed _GPT)             *)
(* The rules engine (python-chess) is outside the repository.  It is       *)
(* modelled as a finite abstract game: a position is a move stack played   *)
(* from a start position, and the rules of the game (how many legal moves  *)
(* a position has, which of them capture or give check, when the game is   *)
(* over) are a fixed function of the position, selected by game.seed.      *)
(* Scores of the GoogleSearch variant are kept in tenths, so that its      *)
(* 0.1 and 0.5 weights are the integers 1 and 5.                           *)
(***************************************************************************)
EXTENDS Integers, Sequences, FiniteSets, TLC

VARIABLES
    game,           \* the rules in force: [seed, start, turn0]
    board,          \* the chess.Board the program holds
    pc,             \* position of the running program
    ret,            \* what the last search call returned
    scenario,       \* play_game's arguments: [white, black] strategy names
    variant,        \* which main.py is running: "GS" or "GPT"
    num_games,      \* how many games the simulation plays
    games_played,   \* games finished and tallied so far
    stats,          \* collections.Counter of run_simulation (GS)
    results,        \* list of play_game results (GPT)
    rates           \* the win rates computed last

vars == <<game, board, pc, ret, scenario, variant, num_games, games_played,
          stats, results, rates>>

(***************************************************************************)
(* Bounds of the model.                                                    *)
(***************************************************************************)
NumSeeds == 4       \* how many different abstract games are explored
MaxBranch == 3      \* most legal moves of a position outside the opening
MaxPly == 5         \* ply at which the rules end every game (75-move rule)
MaxDepth == 3       \* largest search depth passed to a search call
NumGames == 2       \* largest number of games of one simulation

WHITE == TRUE
BLACK == FALSE

Max(a, b) == IF a >= b THEN a ELSE b
Min(a, b) == IF a <= b THEN a ELSE b

(***************************************************************************)
(* The rules engine: chess.Board as the program uses it.                   *)
(***************************************************************************)
PieceTypes == <<"PAWN", "KNIGHT", "BISHOP", "ROOK", "QUEEN", "KING">>

\* legal first moves of White and replies of Black that the model keeps from
\* the 20 x 20 of chess: every move the opening book names, and one more
FirstMoves == <<"e2e4", "d2d4", "c2c4", "g1f3", "a2a3">>
Replies == <<"e7e5", "c7c5", "e7e6", "c7c6", "d7d5", "g8f6">>

\* the opening of a game played from chess.Board(): the first move of each side
InOpening(b) == game.start = "initial" /\ Len(b.move_stack) < 2

\* the position a move leads to, as a number that decides its rules
ChildKey(b, move) ==
    (b.key * 13 + move * 7 + (Len(b.move_stack) + 1) * 3) % 97

is_insufficient_material(b) ==
    /\ \A c \in BOOLEAN :
          b.pieces[c]["PAWN"] + b.pieces[c]["ROOK"] + b.pieces[c]["QUEEN"] = 0
    /\ b.pieces[WHITE]["KNIGHT"] + b.pieces[WHITE]["BISHOP"]
         + b.pieces[BLACK]["KNIGHT"] + b.pieces[BLACK]["BISHOP"] <= 1

\* how many legal moves the position has; a king in check has a move when
\* the material cannot mate
NumLegal(b) ==
    IF game.start = "initial" /\ Len(b.move_stack) = 0 THEN Len(FirstMoves)
    ELSE IF game.start = "initial" /\ Len(b.move_stack) = 1 THEN Len(Replies)
    ELSE LET n == Min((b.key \div 5) % (MaxBranch + 2), MaxBranch)
         IN IF n = 0 /\ b.in_check /\ is_insufficient_material(b) THEN 1 ELSE n

StartPieces ==
    IF game.start = "initial"
    THEN [c \in BOOLEAN |-> [t \in {"PAWN"} |-> 8] @@ [t \in {"KNIGHT", "BISHOP", "ROOK"} |-> 2]
                            @@ [t \in {"QUEEN", "KING"} |-> 1]]
    ELSE [c \in BOOLEAN |->
            IF c = WHITE
            THEN [t \in {"PAWN", "KNIGHT", "BISHOP", "QUEEN"} |-> 0] @@ [t \in {"ROOK", "KING"} |-> 1]
            ELSE [t \in {"BISHOP", "ROOK", "QUEEN"} |-> 0] @@ [t \in {"PAWN", "KNIGHT", "KING"} |-> 1]]

\* chess.Board() or chess.Board(fen): the position the game named by `game`
\* starts from
StartBoard ==
    [move_stack |-> <<>>,
     turn |-> game.turn0,
     fullmove_number |-> IF game.start = "initial" THEN 1 ELSE 40,
     key |-> (game.seed * 31 + 16) % 97,
     in_check |-> FALSE,
     pieces |-> StartPieces,
     castling |-> [c \in BOOLEAN |-> game.start = "initial"],
     saved |-> <<>>]

\* the piece a capturing move takes: the first kind, from a place in
\* PieceTypes the move decides, that the opponent still has ("" when none)
Victim(b, move) ==
    LET k == ChildKey(b, move)
        cand == {i \in 0..4 : b.pieces[~b.turn][PieceTypes[((k + i) % 5) + 1]] > 0}
    IN IF cand = {} THEN ""
       ELSE PieceTypes[((k + (CHOOSE i \in cand : \A j \in cand : i <= j)) % 5) + 1]

legal_moves(b) == [i \in 1..NumLegal(b) |-> i]
gives_check(b, move) ==
    ~(game.start = "initial" /\ Len(b.move_stack) < 2) /\ ChildKey(b, move) % 5 = 0
is_capture(b, move) ==
    /\ ~InOpening(b)
    /\ ChildKey(b, move) % 3 = 1
    /\ Victim(b, move) # ""
pieces(b, piece_type, color) == b.pieces[color][piece_type]
has_castling_rights(b, color) == b.castling[color]

is_checkmate(b) == NumLegal(b) = 0 /\ b.in_check
is_stalemate(b) == NumLegal(b) = 0 /\ ~b.in_check
\* the move-count and repetition rules that end every game of chess
is_seventyfive_moves(b) == Len(b.move_stack) >= MaxPly
can_claim_fifty_moves(b) == is_seventyfive_moves(b) /\ NumLegal(b) > 0
can_claim_threefold_repetition(b) == FALSE

is_game_over(b) ==
    \/ is_checkmate(b)
    \/ is_insufficient_material(b)
    \/ is_stalemate(b)
    \/ is_seventyfive_moves(b)

\* board.push(move): the state before the move is kept for pop
push(b, move) ==
    [move_stack |-> Append(b.move_stack, move),
     turn |-> ~b.turn,
     fullmove_number |-> IF b.turn = BLACK THEN b.fullmove_number + 1
                         ELSE b.fullmove_number,
     key |-> ChildKey(b, move),
     in_check |-> gives_check(b, move),
     pieces |-> IF is_capture(b, move)
                THEN [b.pieces EXCEPT ![~b.turn][Victim(b, move)] = @ - 1]
                ELSE b.pieces,
     castling |-> [b.castling EXCEPT
                     ![b.turn] = @ /\ (InOpening(b) \/ ChildKey(b, move) % 7 # 2)],
     saved |-> Append(b.saved, [key |-> b.key, in_check |-> b.in_check,
                                pieces |-> b.pieces, castling |-> b.castling])]

\* board.pop(): the last move is taken back and the state before it restored
pop(b) ==
    LET before == b.saved[Len(b.saved)]
    IN [move_stack |-> SubSeq(b.move_stack, 1, Len(b.move_stack) - 1),
        turn |-> ~b.turn,
        fullmove_number |-> IF b.turn = WHITE THEN b.fullmove_number - 1
                            ELSE b.fullmove_number,
        key |-> before.key,
        in_check |-> before.in_check,
        pieces |-> before.pieces,
        castling |-> before.castling,
        saved |-> SubSeq(b.saved, 1, Len(b.saved) - 1)]

\* board.result(): "1-0" / "0-1" on checkmate, a draw on every other ending
result(b) ==
    IF is_checkmate(b) THEN (IF b.turn = WHITE THEN "0-1" ELSE "1-0")
    ELSE IF is_game_over(b) THEN "1/2-1/2"
    ELSE "*"

(***************************************************************************)
(* ChatGPT-4o-Version/main.py                                              *)
(***************************************************************************)
Inf == 10000000     \* np.inf / float('inf'): above every score
None == 0           \* Python's None where a move is expected (moves are 1..)

opening_book ==
    [first \in {"e2e4", "d2d4", "c2c4", "g1f3"} |->
        CASE first = "e2e4" -> <<"e7e5", "c7c5", "e7e6", "c7c6">>
          [] first = "d2d4" -> <<"d7d5", "g8f6", "e7e6">>
          [] first = "c2c4" -> <<"e7e5", "c7c5", "g8f6">>
          [] first = "g1f3" -> <<"d7d5", "g8f6", "c7c5">>]

Range(seq) == {seq[i] : i \in 1..Len(seq)}

\* move.uci() of the move played at the given ply (the book reads moves[0] only)
uci(ply, move) ==
    IF game.start = "initial" /\ ply = 0 THEN FirstMoves[move]
    ELSE IF game.start = "initial" /\ ply = 1 THEN Replies[move]
    ELSE "other"

\* chess.Move.from_uci(name) as a move of the position: its number when the
\* position has a legal move of that name, a move outside legal_moves otherwise
from_uci(b, name) ==
    LET same == {m \in Range(legal_moves(b)) : uci(Len(b.move_stack), m) = name}
    IN IF same = {} THEN NumLegal(b) + 1 ELSE CHOOSE m \in same : TRUE

\* the values get_opening_move may return; "IndexError" when random.choice is
\* given an empty list, "None" for no book move
get_opening_move(b) ==
    LET moves == [i \in 1..Len(b.move_stack) |-> uci(i - 1, b.move_stack[i])]
    IN IF Len(moves) = 0 THEN {"e2e4", "d2d4", "c2c4", "g1f3"}
       ELSE IF Len(moves) = 1
       THEN LET choices == IF moves[1] \in DOMAIN opening_book
                           THEN opening_book[moves[1]] ELSE <<>>
            IN IF choices = <<>> THEN {"IndexError"} ELSE Range(choices)
       ELSE {"None"}

piece_values_GPT ==
    [t \in Range(PieceTypes) |->
        CASE t = "PAWN" -> 100 [] t = "KNIGHT" -> 320 [] t = "BISHOP" -> 330
          [] t = "ROOK" -> 500 [] t = "QUEEN" -> 900 [] t = "KING" -> 20000]

RECURSIVE SumOver(_, _)
SumOver(f, S) ==
    IF S = {} THEN 0
    ELSE LET x == CHOOSE y \in S : TRUE IN f[x] + SumOver(f, S \ {x})

evaluate_board_GPT(b) ==
    IF is_checkmate(b) THEN (IF b.turn = BLACK THEN 100000 ELSE -100000)
    ELSE IF is_stalemate(b) \/ is_insufficient_material(b) THEN 0
    ELSE SumOver([t \in Range(PieceTypes) |->
                    piece_values_GPT[t] * (pieces(b, t, WHITE) - pieces(b, t, BLACK))],
                 Range(PieceTypes))
         + Len(legal_moves(b)) * 5

move_priority(b, move) ==
    IF gives_check(b, move) THEN 20
    ELSE IF is_capture(b, move) THEN 10
    ELSE 1

\* sorted(board.legal_moves, key=move_priority, reverse=True): a stable sort,
\* moves of equal priority keep their enumeration order
order_moves(b) ==
    LET lm == legal_moves(b)
        of(p) == SelectSeq(lm, LAMBDA m : move_priority(b, m) = p)
    IN of(20) \o of(10) \o of(1)

Call(b, depth, flag) ==
    [stack |-> b.move_stack, turn |-> b.turn, depth |-> depth, maximizing |-> flag]

RECURSIVE minimax_GPT(_, _, _, _, _)
RECURSIVE minimax_GPT_loop(_, _, _, _, _, _, _, _)

\* minimax's loop with the operands of the cut-off test exchanged
minimax_GPT_loop_SwappedTest(b, moves, depth, alpha, beta, is_maximizing, best_score, seen) ==
    IF moves = <<>>
    THEN [score |-> best_score, board |-> b, calls |-> seen]
    ELSE LET r == minimax_GPT(push(b, Head(moves)), depth - 1, alpha, beta,
                              ~is_maximizing)
             b2 == pop(r.board)
             best2 == IF is_maximizing THEN Max(best_score, r.score)
                      ELSE Min(best_score, r.score)
             alpha2 == IF is_maximizing THEN Max(alpha, best2) ELSE alpha
             beta2 == IF is_maximizing THEN beta ELSE Min(beta, best2)
         IN IF alpha2 <= beta2
            THEN [score |-> best2, board |-> b2, calls |-> seen \cup r.calls]
            ELSE minimax_GPT_loop(b2, Tail(moves), depth, alpha2, beta2,
                                  is_maximizing, best2, seen \cup r.calls)

\* the for loop of minimax, from the move at the head of moves on; seen is
\* the set of minimax calls made so far
minimax_GPT_loop(b, moves, depth, alpha, beta, is_maximizing, best_score, seen) ==
    IF moves = <<>>
    THEN [score |-> best_score, board |-> b, calls |-> seen]
    ELSE LET r == minimax_GPT(push(b, Head(moves)), depth - 1, alpha, beta,
                              ~is_maximizing)
             b2 == pop(r.board)
             best2 == IF is_maximizing THEN Max(best_score, r.score)
                      ELSE Min(best_score, r.score)
             alpha2 == IF is_maximizing THEN Max(alpha, best2) ELSE alpha
             beta2 == IF is_maximizing THEN beta ELSE Min(beta, best2)
         IN IF beta2 <= alpha2
            THEN [score |-> best2, board |-> b2, calls |-> seen \cup r.calls]
            ELSE minimax_GPT_loop(b2, Tail(moves), depth, alpha2, beta2,
                                  is_maximizing, best2, seen \cup r.calls)

minimax_GPT(b, depth, alpha, beta, is_maximizing) ==
    IF depth = 0 \/ is_game_over(b)
    THEN [score |-> evaluate_board_GPT(b), board |-> b,
          calls |-> {Call(b, depth, is_maximizing)}]
    ELSE minimax_GPT_loop(b, order_moves(b), depth, alpha, beta, is_maximizing,
                          IF is_maximizing THEN -Inf ELSE Inf,
                          {Call(b, depth, is_maximizing)})

RECURSIVE search_GPT_loop(_, _, _, _, _, _, _)
\* best_move_minimax's loop taking a move that only equals the best so far
search_GPT_loop_LastTie(b, moves, depth, best_score, best_move, seen, scores) ==
    IF moves = <<>>
    THEN [move |-> best_move, score |-> best_score, board |-> b, calls |-> seen,
          root |-> scores]
    ELSE LET move == Head(moves)
             r == minimax_GPT(push(b, move), depth - 1, -Inf, Inf, FALSE)
             b2 == pop(r.board)
             better == r.score >= best_score
         IN search_GPT_loop(b2, Tail(moves), depth,
                            IF better THEN r.score ELSE best_score,
                            IF better THEN move ELSE best_move,
                            seen \cup r.calls,
                            scores \cup {<<move, r.score>>})

\* the for loop of best_move_minimax; scores collects (move, score) of the
\* root moves tried
search_GPT_loop(b, moves, depth, best_score, best_move, seen, scores) ==
    IF moves = <<>>
    THEN [move |-> best_move, score |-> best_score, board |-> b, calls |-> seen,
          root |-> scores]
    ELSE LET move == Head(moves)
             r == minimax_GPT(push(b, move), depth - 1, -Inf, Inf, FALSE)
             b2 == pop(r.board)
             better == r.score > best_score
         IN search_GPT_loop(b2, Tail(moves), depth,
                            IF better THEN r.score ELSE best_score,
                            IF better THEN move ELSE best_move,
                            seen \cup r.calls,
                            scores \cup {<<move, r.score>>})

\* lines 81-89 of best_move_minimax: the search after the opening book
search_GPT(b, depth) ==
    search_GPT_loop(b, order_moves(b), depth, -Inf, None, {}, {})

\* best_move_minimax: the moves it may return; IndexError when the book lookup
\* raises, else a book move, else the move the search selects
best_move_minimax(b, depth) ==
    LET book == IF b.fullmove_number <= 2 THEN get_opening_move(b) ELSE {"None"}
        found == search_GPT(b, depth)
    IN {IF name = "IndexError"
        THEN [raised |-> "IndexError", via |-> "book", move |-> None, board |-> b,
              calls |-> {}, root |-> {}]
        ELSE IF name # "None"
        THEN [raised |-> "", via |-> "book", move |-> from_uci(b, name), board |-> b,
              calls |-> {}, root |-> {}]
        ELSE [raised |-> "", via |-> "search", move |-> found.move,
              board |-> found.board, calls |-> found.calls, root |-> found.root]
        : name \in book}

\* random_move: the moves random.choice may return
random_move_GPT(b) == Range(legal_moves(b))

(***************************************************************************)
(* GoogleSearch-Version/main.py (scores in tenths)                         *)
(***************************************************************************)
PIECE_VALUES_GS ==
    [t \in Range(PieceTypes) |->
        CASE t = "PAWN" -> 1 [] t = "KNIGHT" -> 3 [] t = "BISHOP" -> 3
          [] t = "ROOK" -> 5 [] t = "QUEEN" -> 9 [] t = "KING" -> 100]

TERMINATIONS ==
    <<"is_stalemate", "is_insufficient_material", "is_checkmate",
      "can_claim_fifty_moves", "can_claim_threefold_repetition">>

Method(b, termination) ==
    CASE termination = "is_stalemate" -> is_stalemate(b)
      [] termination = "is_insufficient_material" -> is_insufficient_material(b)
      [] termination = "is_checkmate" -> is_checkmate(b)
      [] termination = "can_claim_fifty_moves" -> can_claim_fifty_moves(b)
      [] termination = "can_claim_threefold_repetition" ->
            can_claim_threefold_repetition(b)

get_termination(b) ==
    LET hit == {i \in 1..Len(TERMINATIONS) : Method(b, TERMINATIONS[i])}
    IN IF hit = {} THEN "None"
       ELSE TERMINATIONS[CHOOSE i \in hit : \A j \in hit : i <= j]

evaluate_board_GS(b) ==
    IF is_checkmate(b) THEN (IF b.turn THEN -10000 ELSE 10000)
    ELSE IF is_stalemate(b) \/ is_insufficient_material(b) THEN 0
    ELSE 10 * SumOver([t \in Range(PieceTypes) |->
                        (pieces(b, t, WHITE) - pieces(b, t, BLACK)) * PIECE_VALUES_GS[t]],
                      Range(PieceTypes))
         + (IF b.turn = WHITE THEN Len(legal_moves(b)) ELSE -Len(legal_moves(b)))
         + (IF has_castling_rights(b, WHITE) THEN 5 ELSE 0)
         - (IF has_castling_rights(b, BLACK) THEN 5 ELSE 0)

RECURSIVE minimax_GS(_, _, _, _, _)
RECURSIVE minimax_GS_max_loop(_, _, _, _, _, _, _)
RECURSIVE minimax_GS_min_loop(_, _, _, _, _, _, _)

\* the for loop of the maximizing branch
minimax_GS_max_loop(b, moves, depth, alpha, beta, max_eval, seen) ==
    IF moves = <<>>
    THEN [score |-> max_eval, board |-> b, calls |-> seen]
    ELSE LET r == minimax_GS(push(b, Head(moves)), depth - 1, alpha, beta, FALSE)
             b2 == pop(r.board)
             max2 == Max(max_eval, r.score)
             alpha2 == Max(alpha, r.score)
         IN IF beta <= alpha2
            THEN [score |-> max2, board |-> b2, calls |-> seen \cup r.calls]
            ELSE minimax_GS_max_loop(b2, Tail(moves), depth, alpha2, beta, max2,
                                     seen \cup r.calls)

\* the minimizing branch leaving its loop at the cut-off before board.pop()
minimax_GS_min_loop_BreakBeforePop(b, moves, depth, alpha, beta, min_eval, seen) ==
    IF moves = <<>>
    THEN [score |-> min_eval, board |-> b, calls |-> seen]
    ELSE LET r == minimax_GS(push(b, Head(moves)), depth - 1, alpha, beta, TRUE)
             b2 == pop(r.board)
             min2 == Min(min_eval, r.score)
             beta2 == Min(beta, r.score)
         IN IF beta2 <= alpha
            THEN [score |-> min2, board |-> r.board, calls |-> seen \cup r.calls]
            ELSE minimax_GS_min_loop(b2, Tail(moves), depth, alpha, beta2, min2,
                                     seen \cup r.calls)

\* the for loop of the minimizing branch
minimax_GS_min_loop(b, moves, depth, alpha, beta, min_eval, seen) ==
    IF moves = <<>>
    THEN [score |-> min_eval, board |-> b, calls |-> seen]
    ELSE LET r == minimax_GS(push(b, Head(moves)), depth - 1, alpha, beta, TRUE)
             b2 == pop(r.board)
             min2 == Min(min_eval, r.score)
             beta2 == Min(beta, r.score)
         IN IF beta2 <= alpha
            THEN [score |-> min2, board |-> b2, calls |-> seen \cup r.calls]
            ELSE minimax_GS_min_loop(b2, Tail(moves), depth, alpha, beta2, min2,
                                     seen \cup r.calls)

minimax_GS(b, depth, alpha, beta, maximizing_player) ==
    IF depth = 0 \/ is_game_over(b)
    THEN [score |-> evaluate_board_GS(b), board |-> b,
          calls |-> {Call(b, depth, maximizing_player)}]
    ELSE IF maximizing_player
    THEN minimax_GS_max_loop(b, legal_moves(b), depth, alpha, beta, -Inf,
                             {Call(b, depth, maximizing_player)})
    ELSE minimax_GS_min_loop(b, legal_moves(b), depth, alpha, beta, Inf,
                             {Call(b, depth, maximizing_player)})

RECURSIVE best_move_GS_loop(_, _, _, _, _, _, _)
\* the for loop of best_move
best_move_GS_loop(b, moves, depth, best_eval, best_move, seen, scores) ==
    IF moves = <<>>
    THEN [raised |-> "", via |-> "search", move |-> best_move, board |-> b,
          calls |-> seen, root |-> scores]
    ELSE LET move == Head(moves)
             pushed == push(b, move)
             r == minimax_GS(pushed, depth - 1, -Inf, Inf, ~pushed.turn)
             b2 == pop(r.board)
             better == \/ (b2.turn /\ r.score > best_eval)
                       \/ (~b2.turn /\ r.score < best_eval)
         IN best_move_GS_loop(b2, Tail(moves), depth,
                              IF better THEN r.score ELSE best_eval,
                              IF better THEN move ELSE best_move,
                              seen \cup r.calls,
                              scores \cup {<<move, r.score>>})

best_move_GS(b, depth) ==
    best_move_GS_loop(b, legal_moves(b), depth, IF b.turn THEN -Inf ELSE Inf,
                      None, {}, {})

\* random_move: a capture when the position has one, else any legal move
random_move_GS(b) ==
    LET capture_moves == {m \in Range(legal_moves(b)) : is_capture(b, m)}
    IN IF capture_moves # {} THEN capture_moves ELSE Range(legal_moves(b))

play_result_GPT(b) ==
    LET res == result(b) IN IF res = "1-0" THEN 1 ELSE IF res = "0-1" THEN -1 ELSE 0

Count(counter, key) == IF key \in DOMAIN counter THEN counter[key] ELSE 0

Increment(counter, key) ==
    IF key \in DOMAIN counter THEN [counter EXCEPT ![key] = @ + 1]
    ELSE counter @@ (key :> 1)

\* the tally without its else: a checkmate is counted under its result and
\* under its termination
tally_GS_NoElse(counter, b) ==
    LET termination == get_termination(b)
    IN IF termination = "is_checkmate"
       THEN Increment(Increment(counter, result(b)), termination)
       ELSE Increment(counter, termination)

\* the body of run_simulation's loop for one finished game
tally_GS(counter, b) ==
    LET termination == get_termination(b)
    IN IF termination = "is_checkmate" THEN Increment(counter, result(b))
       ELSE Increment(counter, termination)

\* rates are exact fractions: percent = num / den
calculate_win_rate(counter) ==
    LET white_wins == Count(counter, "1-0")
        black_wins == Count(counter, "0-1")
        draws == SumOver(counter, DOMAIN counter \ {"1-0", "0-1"})
        total_games == white_wins + black_wins + draws
    IN [white |-> white_wins, black |-> black_wins, draw |-> draws,
        den |-> total_games,
        white_num |-> white_wins * 100, black_num |-> black_wins * 100,
        draw_num |-> draws * 100]

win_rates_GPT(res, n) ==
    LET count(v) == Cardinality({i \in 1..Len(res) : res[i] = v})
    IN [white |-> count(1), black |-> count(-1), draw |-> count(0),
        den |-> n,
        white_num |-> count(1) * 100, black_num |-> count(-1) * 100,
        draw_num |-> count(0) * 100]

(***************************************************************************)
(* State machine                                                           *)
(***************************************************************************)
DEPTH_GS == 3       \* best_move's default depth, used by run_simulation
DEPTH_GPT == 4      \* the depth the scenarios pass to best_move_minimax

NoRet ==
    [op |-> "none", depth |-> 0, flag |-> FALSE, entry |-> <<>>, raised |-> "",
     via |-> "", move |-> None, score |-> 0, board |-> <<>>, calls |-> {},
     root |-> {}]

Returned(op, depth, flag, entry, r) ==
    [op |-> op, depth |-> depth, flag |-> flag, entry |-> entry,
     raised |-> r.raised, via |-> r.via, move |-> r.move, score |-> r.score,
     board |-> r.board, calls |-> r.calls, root |-> r.root]

Scored(r) ==
    [raised |-> "", via |-> "search", move |-> None, score |-> r.score,
     board |-> r.board, calls |-> r.calls, root |-> {}]

Selected(r) ==
    [raised |-> r.raised, via |-> r.via, move |-> r.move, score |-> 0,
     board |-> r.board, calls |-> r.calls, root |-> r.root]

NoSim ==
    /\ scenario = <<"none", "none">>
    /\ variant = "both"
    /\ num_games = 0
    /\ games_played = 0
    /\ stats = <<>>
    /\ results = <<>>
    /\ rates = <<>>

\* a position set up from a FEN in the middle of a game, either side to move
InitSearch ==
    /\ game \in [seed : 0..(NumSeeds - 1), start : {"endgame"}, turn0 : BOOLEAN]
    /\ board = StartBoard
    /\ pc = "idle"
    /\ ret = NoRet
    /\ NoSim

UnchangedSim ==
    UNCHANGED <<game, scenario, variant, num_games, games_played, stats, results, rates>>

\* board.push(move) of a legal move: the game goes on
Push ==
    /\ pc = "idle"
    /\ ~is_game_over(board)
    /\ \E move \in Range(legal_moves(board)) : board' = push(board, move)
    /\ UNCHANGED <<pc, ret>>
    /\ UnchangedSim

CallMinimaxGS ==
    /\ pc = "idle"
    /\ \E depth \in 0..MaxDepth, flag \in BOOLEAN :
          LET r == minimax_GS(board, depth, -Inf, Inf, flag)
          IN /\ ret' = Returned("minimax_GS", depth, flag, board, Scored(r))
             /\ board' = r.board
    /\ pc' = "returned"
    /\ UnchangedSim

CallMinimaxGPT ==
    /\ pc = "idle"
    /\ \E depth \in 0..MaxDepth, flag \in BOOLEAN :
          LET r == minimax_GPT(board, depth, -Inf, Inf, flag)
          IN /\ ret' = Returned("minimax_GPT", depth, flag, board, Scored(r))
             /\ board' = r.board
    /\ pc' = "returned"
    /\ UnchangedSim

CallBestMoveGS ==
    /\ pc = "idle"
    /\ ~is_game_over(board)
    /\ \E depth \in 0..MaxDepth :
          LET r == best_move_GS(board, depth)
          IN /\ ret' = Returned("best_move_GS", depth, board.turn, board, Selected(r))
             /\ board' = r.board
    /\ pc' = "returned"
    /\ UnchangedSim

CallBestMoveMinimaxGPT ==
    /\ pc = "idle"
    /\ ~is_game_over(board)
    /\ \E depth \in 0..MaxDepth :
          \E r \in best_move_minimax(board, depth) :
             /\ ret' = Returned("best_move_minimax", depth, TRUE, board, Selected(r))
             /\ board' = r.board
    /\ pc' = "returned"
    /\ UnchangedSim

\* the caller takes the result and carries on with the board
Continue ==
    /\ pc = "returned"
    /\ pc' = "idle"
    /\ ret' = NoRet
    /\ UNCHANGED board
    /\ UnchangedSim

Next ==
    \/ Push
    \/ CallMinimaxGS
    \/ CallMinimaxGPT
    \/ CallBestMoveGS
    \/ CallBestMoveMinimaxGPT
    \/ Continue

Spec == InitSearch /\ [][Next]_vars

(***************************************************************************)
(* play_game and the simulations                                           *)
(***************************************************************************)
Scenarios == {<<"random", "random">>, <<"expert", "random">>, <<"random", "expert">>}

InitGame ==
    /\ game \in [seed : 0..(NumSeeds - 1), start : {"initial"}, turn0 : {WHITE}]
    /\ board = StartBoard
    /\ pc = "play"
    /\ ret = NoRet
    /\ variant \in {"GS", "GPT"}
    /\ scenario \in Scenarios
    /\ num_games \in 1..NumGames
    /\ games_played = 0
    /\ stats = <<>>
    /\ results = <<>>
    /\ rates = <<>>

\* the strategy play_game asks: the one of the side to move
ToMove == IF board.turn = WHITE THEN scenario[1] ELSE scenario[2]

UnchangedTally == UNCHANGED <<game, scenario, variant, num_games, games_played,
                              stats, results, rates>>

\* one pass of play_game's loop: the strategy's move is pushed, or what the
\* strategy raises ends the program
Play(op, depth, r) ==
    /\ ret' = Returned(op, depth, board.turn, board, Selected(r))
    /\ IF r.raised # ""
       THEN pc' = "raised" /\ board' = r.board
       ELSE pc' = "play" /\ board' = push(r.board, r.move)
    /\ UnchangedTally

RandomMoveGS ==
    /\ pc = "play" /\ variant = "GS" /\ ToMove = "random"
    /\ ~is_game_over(board)
    /\ \E move \in random_move_GS(board) :
          Play("random_move", 0, [raised |-> "", via |-> "random", move |-> move,
                                  board |-> board, calls |-> {}, root |-> {}])

RandomMoveGPT ==
    /\ pc = "play" /\ variant = "GPT" /\ ToMove = "random"
    /\ ~is_game_over(board)
    /\ \E move \in random_move_GPT(board) :
          Play("random_move", 0, [raised |-> "", via |-> "random", move |-> move,
                                  board |-> board, calls |-> {}, root |-> {}])

BestMoveGS ==
    /\ pc = "play" /\ variant = "GS" /\ ToMove = "expert"
    /\ ~is_game_over(board)
    /\ Play("best_move_GS", DEPTH_GS, best_move_GS(board, DEPTH_GS))

BestMoveMinimaxGPT ==
    /\ pc = "play" /\ variant = "GPT" /\ ToMove = "expert"
    /\ ~is_game_over(board)
    /\ \E r \in best_move_minimax(board, DEPTH_GPT) :
          Play("best_move_minimax", DEPTH_GPT, r)

\* play_game with a limit of two plies on the length of a game
FinishGameGS_MoveLimit ==
    /\ pc = "play" /\ variant = "GS"
    /\ is_game_over(board) \/ Len(board.move_stack) >= 2
    /\ stats' = tally_GS(stats, board)
    /\ games_played' = games_played + 1
    /\ pc' = IF games_played + 1 = num_games THEN "simulated" ELSE "play"
    /\ board' = StartBoard
    /\ ret' = NoRet
    /\ UNCHANGED <<game, scenario, variant, num_games, results, rates>>

\* play_game returns and run_simulation tallies the game
FinishGameGS ==
    /\ pc = "play" /\ variant = "GS"
    /\ is_game_over(board)
    /\ stats' = tally_GS(stats, board)
    /\ games_played' = games_played + 1
    /\ pc' = IF games_played + 1 = num_games THEN "simulated" ELSE "play"
    /\ board' = StartBoard
    /\ ret' = NoRet
    /\ UNCHANGED <<game, scenario, variant, num_games, results, rates>>

\* play_game returns and its result joins the list of results
FinishGameGPT ==
    /\ pc = "play" /\ variant = "GPT"
    /\ is_game_over(board)
    /\ results' = Append(results, play_result_GPT(board))
    /\ games_played' = games_played + 1
    /\ pc' = IF games_played + 1 = num_games THEN "simulated" ELSE "play"
    /\ board' = StartBoard
    /\ ret' = NoRet
    /\ UNCHANGED <<game, scenario, variant, num_games, stats, rates>>

SummarizeGS ==
    /\ pc = "simulated" /\ variant = "GS"
    /\ rates' = calculate_win_rate(stats)
    /\ pc' = "done"
    /\ UNCHANGED <<game, board, ret, scenario, variant, num_games, games_played,
                   stats, results>>

SummarizeGPT ==
    /\ pc = "simulated" /\ variant = "GPT"
    /\ rates' = win_rates_GPT(results, num_games)
    /\ pc' = "done"
    /\ UNCHANGED <<game, board, ret, scenario, variant, num_games, games_played,
                   stats, results>>

NextGame ==
    \/ RandomMoveGS
    \/ RandomMoveGPT
    \/ BestMoveGS
    \/ BestMoveMinimaxGPT
    \/ FinishGameGS
    \/ FinishGameGPT
    \/ SummarizeGS
    \/ SummarizeGPT

SpecGame == InitGame /\ [][NextGame]_vars

(***************************************************************************)
(* Reference searches the claims compare the program with                  *)
(***************************************************************************)
SetMax(S) == CHOOSE x \in S : \A y \in S : x >= y
SetMin(S) == CHOOSE x \in S : \A y \in S : x <= y

RECURSIVE exhaustive_GPT(_, _, _)
\* minimax of the ChatGPT variant without the cut-off: every move is searched
exhaustive_GPT(b, depth, is_maximizing) ==
    IF depth = 0 \/ is_game_over(b) THEN evaluate_board_GPT(b)
    ELSE LET vals == {exhaustive_GPT(push(b, m), depth - 1, ~is_maximizing) :
                        m \in Range(legal_moves(b))}
         IN IF is_maximizing THEN SetMax(vals) ELSE SetMin(vals)

RECURSIVE exhaustive_GS(_, _, _)
\* minimax of the GoogleSearch variant without the cut-off
exhaustive_GS(b, depth, maximizing_player) ==
    IF depth = 0 \/ is_game_over(b) THEN evaluate_board_GS(b)
    ELSE LET vals == {exhaustive_GS(push(b, m), depth - 1, ~maximizing_player) :
                        m \in Range(legal_moves(b))}
         IN IF maximizing_player THEN SetMax(vals) ELSE SetMin(vals)

RECURSIVE Subtree(_, _)
\* the positions an exhaustive search of the given depth visits
Subtree(b, depth) ==
    IF depth = 0 \/ is_game_over(b) THEN {b.move_stack}
    ELSE {b.move_stack}
         \cup UNION {Subtree(push(b, m), depth - 1) : m \in Range(legal_moves(b))}

Visited(r) == {c.stack : c \in r.calls}

IsMinimaxCall == ret.op \in {"minimax_GS", "minimax_GPT"}
IsBestMoveCall == ret.op \in {"best_move_GS", "best_move_minimax"} /\ ret.via = "search"

\* C1: a full-window minimax call returns the score of the exhaustive minimax
\* of the same depth, evaluator and maximizing flag, in both variants; so
\* does every full-window call best_move / best_move_minimax makes for a root
\* move (depth - 1 >= 0)
C1_PruningEquivalence ==
    /\ ret.op = "minimax_GPT"
          => ret.score = exhaustive_GPT(ret.entry, ret.depth, ret.flag)
    /\ ret.op = "minimax_GS"
          => ret.score = exhaustive_GS(ret.entry, ret.depth, ret.flag)
    /\ (ret.op = "best_move_minimax" /\ ret.via = "search" /\ ret.depth >= 1)
          => \A ms \in ret.root :
                ms[2] = exhaustive_GPT(push(ret.entry, ms[1]), ret.depth - 1, FALSE)
    /\ (ret.op = "best_move_GS" /\ ret.depth >= 1)
          => \A ms \in ret.root :
                ms[2] = exhaustive_GS(push(ret.entry, ms[1]), ret.depth - 1,
                                      ret.entry.turn)

\* a minimax call that cut off part of the tree
C1_WitnessPruned ==
    /\ ret.op = "minimax_GS"
    /\ ret.depth >= 2
    /\ Visited(ret) # Subtree(ret.entry, ret.depth)

C1_WitnessPrunedOrdered ==
    /\ ret.op = "minimax_GPT"
    /\ ret.depth >= 2
    /\ Visited(ret) # Subtree(ret.entry, ret.depth)

\* C3: when a search call returns, the board (move stack, side to move, move
\* number, pieces, rights and the saved states) equals the board at the call
C3_BoardRestored ==
    (IsMinimaxCall \/ IsBestMoveCall) => (ret.board = ret.entry /\ board = ret.entry)

\* a search that pushed moves and cut a sibling loop off has returned
C3_WitnessAfterCutoff ==
    /\ IsBestMoveCall
    /\ ret.depth >= 2
    /\ \E ms \in ret.root :
          Subtree(push(ret.entry, ms[1]), ret.depth - 1)
             # {c.stack : c \in {d \in ret.calls :
                    Len(d.stack) > Len(ret.entry.move_stack)
                    /\ d.stack[Len(ret.entry.move_stack) + 1] = ms[1]}}

RootScore(move) == (CHOOSE ms \in ret.root : ms[1] = move)[2]

\* C2: on a non-terminal position the search returns a root move whose search
\* score is the highest of the root moves when White is to move and the lowest
\* when Black is to move
C2_MoveForSideToMove ==
    IsBestMoveCall =>
        /\ \E ms \in ret.root : ms[1] = ret.move
        /\ \A ms \in ret.root :
              IF ret.entry.turn = WHITE THEN RootScore(ret.move) >= ms[2]
              ELSE RootScore(ret.move) <= ms[2]

RECURSIVE plain_minimax(_, _, _, _, _)
RECURSIVE plain_minimax_loop(_, _, _, _, _, _, _)
\* minimax of the ChatGPT variant iterating board.legal_moves as enumerated
plain_minimax_loop(b, moves, depth, alpha, beta, is_maximizing, best_score) ==
    IF moves = <<>> THEN best_score
    ELSE LET score == plain_minimax(push(b, Head(moves)), depth - 1, alpha, beta,
                                    ~is_maximizing)
             best2 == IF is_maximizing THEN Max(best_score, score)
                      ELSE Min(best_score, score)
             alpha2 == IF is_maximizing THEN Max(alpha, best2) ELSE alpha
             beta2 == IF is_maximizing THEN beta ELSE Min(beta, best2)
         IN IF beta2 <= alpha2 THEN best2
            ELSE plain_minimax_loop(b, Tail(moves), depth, alpha2, beta2,
                                    is_maximizing, best2)

plain_minimax(b, depth, alpha, beta, is_maximizing) ==
    IF depth = 0 \/ is_game_over(b) THEN evaluate_board_GPT(b)
    ELSE plain_minimax_loop(b, legal_moves(b), depth, alpha, beta, is_maximizing,
                            IF is_maximizing THEN -Inf ELSE Inf)

RECURSIVE plain_search_loop(_, _, _, _, _)
plain_search_loop(b, moves, depth, best_score, best_move) ==
    IF moves = <<>> THEN [move |-> best_move, score |-> best_score]
    ELSE LET score == plain_minimax(push(b, Head(moves)), depth - 1, -Inf, Inf, FALSE)
         IN IF score > best_score
            THEN plain_search_loop(b, Tail(moves), depth, score, Head(moves))
            ELSE plain_search_loop(b, Tail(moves), depth, best_score, best_move)

\* the search of best_move_minimax without move ordering
plain_search(b, depth) == plain_search_loop(b, legal_moves(b), depth, -Inf, None)

IsOrderedSearch == ret.op = "best_move_minimax" /\ ret.via = "search"

\* C4 as stated: the ordered search returns the move the unordered search returns
C4_SameMove ==
    IsOrderedSearch => ret.move = plain_search(ret.entry, ret.depth).move

\* C4 as amended: the ordered search returns a move with the score of the move
\* the unordered search returns, the first in order_moves order of the root
\* moves with that score, and the same move when no other root move has it
C4_SameScoreFirstOrdered ==
    IsOrderedSearch =>
        LET plain == plain_search(ret.entry, ret.depth)
            ordered == order_moves(ret.entry)
            best == {i \in 1..Len(ordered) : RootScore(ordered[i]) = plain.score}
        IN /\ \A ms \in ret.root : ms[2] <= plain.score
           /\ RootScore(ret.move) = plain.score
           /\ best # {}
           /\ ret.move = ordered[SetMin(best)]
           /\ Cardinality(best) = 1 => ret.move = plain.move

\* the ordering changed the order of the root moves, and the best is unique
C4_WitnessReordered ==
    /\ IsOrderedSearch
    /\ order_moves(ret.entry) # legal_moves(ret.entry)
    /\ Cardinality({ms \in ret.root : ms[2] = RootScore(ret.move)}) = 1
    /\ Cardinality(ret.root) >= 2

\* C5: minimax on a position where the game is over returns the mate extreme,
\* positive when Black is mated and negative when White is mated, and 0 for
\* every drawn ending
C5_TerminalScore ==
    (IsMinimaxCall /\ is_game_over(ret.entry)) =>
        LET mate == IF ret.op = "minimax_GPT" THEN 100000 ELSE 10000
        IN ret.score = IF is_checkmate(ret.entry)
                       THEN (IF ret.entry.turn = BLACK THEN mate ELSE -mate)
                       ELSE 0

\* C9: best_move / best_move_minimax with depth 0 calls minimax with depth -1;
\* such a call fails or returns evaluate_board of its position, and expands
\* nothing below it
C9_NegativeDepthStops ==
    (IsBestMoveCall /\ ret.depth = 0) =>
        \/ ret.raised # ""
        \/ /\ \A c \in ret.calls : Len(c.stack) = Len(ret.entry.move_stack) + 1
           /\ \A ms \in ret.root :
                 ms[2] = IF ret.op = "best_move_GS"
                         THEN evaluate_board_GS(push(ret.entry, ms[1]))
                         ELSE evaluate_board_GPT(push(ret.entry, ms[1]))

\* C10: in every minimax call of a best_move / best_move_minimax search the
\* maximizing flag is true exactly when White is to move at that node
C10_FlagIsWhiteToMove ==
    IsBestMoveCall => \A c \in ret.calls : c.maximizing = (c.turn = WHITE)

StrategyOps == {"random_move", "best_move_GS", "best_move_minimax"}

\* C6: in play_game best_move_minimax returns a move that is legal in the
\* position it was asked about, from the book or from the search, and does
\* not fail when the one move played is not in the book
C6_LegalMoveNoFailure ==
    ret.op = "best_move_minimax" =>
        /\ ret.raised = ""
        /\ ret.move \in Range(legal_moves(ret.entry))

Tally ==
    IF variant = "GS" THEN calculate_win_rate(stats)
    ELSE win_rates_GPT(results, games_played)

\* C8: every finished game is tallied once, as a win of the side that gave
\* checkmate or else as a draw; after the simulation the three counts are
\* within 0..n and sum to n, and the three rates sum to 100
C8_TallyConservation ==
    /\ [](/\ Tally.white + Tally.black + Tally.draw = games_played
          /\ variant = "GPT" => Len(results) = games_played
          /\ pc = "done" =>
                /\ games_played = num_games
                /\ rates = Tally
                /\ rates.den = num_games
                /\ {rates.white, rates.black, rates.draw} \subseteq 0..num_games
                /\ rates.white + rates.black + rates.draw = num_games
                /\ rates.white_num + rates.black_num + rates.draw_num
                      = 100 * rates.den)
    /\ [][games_played' = games_played + 1 =>
            LET won == [white |-> is_checkmate(board) /\ board.turn = BLACK,
                        black |-> is_checkmate(board) /\ board.turn = WHITE,
                        draw |-> ~is_checkmate(board)]
            IN /\ Tally'.white = Tally.white + (IF won.white THEN 1 ELSE 0)
               /\ Tally'.black = Tally.black + (IF won.black THEN 1 ELSE 0)
               /\ Tally'.draw = Tally.draw + (IF won.draw THEN 1 ELSE 0)]_vars

\* a finished simulation of several games with a draw and a win among them
C8_WitnessMixedOutcomes ==
    /\ pc = "done"
    /\ num_games >= 2
    /\ rates.draw >= 1
    /\ rates.white + rates.black >= 1

====
